---- MODULE Spec2Model ----
(***************************************************************************)
(* A model of WorkflowOrchestrator (src/src/services/orchestrator.js):     *)
(* the three workflow procedures as sequences of awaited collaborator      *)
(* calls inside one try/catch, and the initialize()/cleanup() lifecycle.   *)
(*                                                                         *)
(* A collaborator call is issued by the orchestrator and settled later by  *)
(* its collaborator (Resolve / Reject).  The code that runs between two    *)
(* awaits is one step of the JavaScript event loop, so settling the        *)
(* awaited call and running the continuation up to the next await (or the  *)
(* return) is one action.                                                  *)
(***************************************************************************)
EXTENDS Integers, Sequences, FiniteSets, TLC

\* ------------------------------------------------------------------ bounds
MaxInv == 2           \* workflow invocations in flight on one orchestrator
MaxClock == 2         \* readings of Date.now() are 0..MaxClock
MaxMissing == 1       \* collaborator fields cleared by outside code
MaxInitCalls == 1     \* calls of initialize()
MaxCleanupCalls == 1  \* calls of cleanup()

Invs == 1..MaxInv

\* ------------------------------------------------------------- vocabulary
\* The four collaborators the constructor creates.
Collabs == {"github", "slack", "notion", "calendar"}

\* args.severity as callers may pass it.
Severities == {"low", "HIGH", "high", "critical"}

\* What a caller may ask for: one of the three procedures; args.severity is
\* read by handleIncidentResponse only.
Requests ==
  {[wf |-> "scheduleCodeReview", severity |-> "none"],
   [wf |-> "createProjectKickoff", severity |-> "none"]}
  \cup {[wf |-> "handleIncidentResponse", severity |-> s] : s \in Severities}

\* error.message of a rejecting collaborator call, as a sequence of words.
ErrTexts == {<<"no slot available">>, <<"rate", "limited">>}

\* error.message of the TypeError raised by a call on a missing collaborator.
TypeErrorText == <<"Cannot read properties of undefined">>

\* Names of the local constants of the three procedures.
CtxKeys ==
  {"prDetails", "issueDetails", "meetingTime", "channel", "meeting",
   "notionPage", "notionProject", "repository", "kickoffTime",
   "notionIncident", "issue"}

\* A value is named by what it is and the invocation it was given to.
NoRef == <<"none", 0>>

VARIABLES
  inv,            \* per invocation: procedure, args.severity, position, startTime
  ctx,            \* per invocation: the local constants bound so far
  calls,          \* per invocation: the collaborator calls issued, with status
  outcome,        \* per invocation: what the procedure handed to its caller
  artifacts,      \* what exists in the external systems
  now,            \* Date.now()
  present,        \* this.github, this.slack, ... hold an object
  isInitialized,  \* this.isInitialized
  collab,         \* each collaborator's own lifecycle state
  initPc,         \* initialize(): "idle" or the collaborator it awaits
  initTrace,      \* events of the current (or last) run of initialize()
  initResults,    \* how each run of initialize() ended
  cleanupPc,      \* cleanup(): "idle" or the collaborator it awaits
  cleanupTrace,   \* events of the current (or last) run of cleanup()
  cleanupResults, \* how each run of cleanup() ended
  derived,        \* attendees, channelData.name, repoName: arguments and value
  config,         \* this.config
  retained        \* what was assigned to further fields of this

wfVars == <<inv, ctx, calls, outcome, artifacts>>
lifeVars == <<isInitialized, collab, initPc, initTrace, initResults,
              cleanupPc, cleanupTrace, cleanupResults>>
vars == <<inv, ctx, calls, outcome, artifacts, now, present, isInitialized,
          collab, initPc, initTrace, initResults, cleanupPc, cleanupTrace,
          cleanupResults, derived, config, retained>>
ownVars == <<config, retained>>

\* ------------------------------------------------------------ the plans
Call(step, op, c, token, bind, uses, creates) ==
  [step |-> step, op |-> op, collab |-> c, token |-> token, bind |-> bind,
   uses |-> uses, creates |-> creates, visibility |-> "unset"]

\* The private: flag of the configuration object a create call is given.
Public(c) == [c EXCEPT !.visibility = "public"]
Private(c) == [c EXCEPT !.visibility = "private"]

\* scheduleCodeReview: Promise.all of the two fetches, then five awaits.
CodeReviewPlanSequentialFetch ==
  << << Call("1", "getPullRequest", "github", "githubToken", "prDetails", {}, FALSE) >>,
     << Call("1", "getIssue", "github", "githubToken", "issueDetails", {}, FALSE) >>,
     << Call("2", "findOptimalTime", "calendar", "calendarToken", "meetingTime",
             {"prDetails"}, FALSE) >>,
     << Public(Call("3", "createReviewChannel", "slack", "slackToken", "channel",
                    {"prDetails", "issueDetails"}, TRUE)) >>,
     << Call("4", "createMeeting", "calendar", "calendarToken", "meeting",
             {"prDetails", "issueDetails", "channel", "meetingTime"}, TRUE) >>,
     << Call("5", "createDocument", "notion", "notionToken", "notionPage",
             {"prDetails", "issueDetails", "channel"}, TRUE) >>,
     << Call("6", "sendMessage", "slack", "slackToken", "none",
             {"channel", "prDetails", "issueDetails", "meetingTime", "meeting",
              "notionPage"}, FALSE) >> >>

CodeReviewPlanNotifyBeforeDocument ==
  << << Call("1", "getPullRequest", "github", "githubToken", "prDetails", {}, FALSE),
        Call("1", "getIssue", "github", "githubToken", "issueDetails", {}, FALSE) >>,
     << Call("2", "findOptimalTime", "calendar", "calendarToken", "meetingTime",
             {"prDetails"}, FALSE) >>,
     << Public(Call("3", "createReviewChannel", "slack", "slackToken", "channel",
                    {"prDetails", "issueDetails"}, TRUE)) >>,
     << Call("4", "createMeeting", "calendar", "calendarToken", "meeting",
             {"prDetails", "issueDetails", "channel", "meetingTime"}, TRUE) >>,
     << Call("6", "sendMessage", "slack", "slackToken", "none",
             {"channel", "prDetails", "issueDetails", "meetingTime", "meeting"}, FALSE) >>,
     << Call("5", "createDocument", "notion", "notionToken", "notionPage",
             {"prDetails", "issueDetails", "channel"}, TRUE) >> >>

CodeReviewPlan ==
  << << Call("1", "getPullRequest", "github", "githubToken", "prDetails", {}, FALSE),
        Call("1", "getIssue", "github", "githubToken", "issueDetails", {}, FALSE) >>,
     << Call("2", "findOptimalTime", "calendar", "calendarToken", "meetingTime",
             {"prDetails"}, FALSE) >>,
     << Public(Call("3", "createReviewChannel", "slack", "slackToken", "channel",
                    {"prDetails", "issueDetails"}, TRUE)) >>,
     << Call("4", "createMeeting", "calendar", "calendarToken", "meeting",
             {"prDetails", "issueDetails", "channel", "meetingTime"}, TRUE) >>,
     << Call("5", "createDocument", "notion", "notionToken", "notionPage",
             {"prDetails", "issueDetails", "channel"}, TRUE) >>,
     << Call("6", "sendMessage", "slack", "slackToken", "none",
             {"channel", "prDetails", "issueDetails", "meetingTime", "meeting",
              "notionPage"}, FALSE) >> >>

\* createProjectKickoff: six awaits in sequence.
KickoffPlanSlotWithMeeting ==
  << << Call("1", "createProjectPage", "notion", "notionToken", "notionProject", {}, TRUE) >>,
     << Private(Call("2", "createRepository", "github", "githubToken", "repository",
                     {}, TRUE)) >>,
     << Public(Call("3", "createReviewChannel", "slack", "slackToken", "channel",
                    {}, TRUE)) >>,
     << Call("4", "findOptimalTime", "calendar", "calendarToken", "kickoffTime", {}, FALSE),
        Call("4", "createMeeting", "calendar", "calendarToken", "meeting",
             {"notionProject", "repository", "channel"}, TRUE) >>,
     << Call("5", "sendMessage", "slack", "slackToken", "none",
             {"channel", "notionProject", "repository", "meeting"}, FALSE) >> >>

KickoffPlan ==
  << << Call("1", "createProjectPage", "notion", "notionToken", "notionProject", {}, TRUE) >>,
     << Private(Call("2", "createRepository", "github", "githubToken", "repository",
                     {}, TRUE)) >>,
     << Public(Call("3", "createReviewChannel", "slack", "slackToken", "channel",
                    {}, TRUE)) >>,
     << Call("4", "findOptimalTime", "calendar", "calendarToken", "kickoffTime", {}, FALSE) >>,
     << Call("4", "createMeeting", "calendar", "calendarToken", "meeting",
             {"notionProject", "repository", "channel", "kickoffTime"}, TRUE) >>,
     << Call("5", "sendMessage", "slack", "slackToken", "none",
             {"channel", "notionProject", "repository", "meeting"}, FALSE) >> >>

\* handleIncidentResponse: args.severity === 'high' || args.severity === 'critical'
EscalatesOnCriticalOnly(severity) == severity = "critical"

Escalates(severity) == severity = "high" \/ severity = "critical"

\* handleIncidentResponse: four awaits, and two more when escalating.
IncidentPlanMeetingBeforeAlert(severity) ==
  << << Call("1", "createDocument", "notion", "notionToken", "notionIncident", {}, TRUE) >>,
     << Call("2", "createIssue", "github", "githubToken", "issue",
             {"notionIncident"}, TRUE) >>,
     << Private(Call("3", "createReviewChannel", "slack", "slackToken", "channel",
                     {}, TRUE)) >> >>
  \o (IF Escalates(severity)
      THEN << << Call("5", "createMeeting", "calendar", "calendarToken", "meeting",
                      {"notionIncident", "issue", "channel"}, TRUE) >>,
              << Call("4", "sendMessage", "slack", "slackToken", "none",
                      {"channel", "notionIncident", "issue"}, FALSE) >>,
              << Call("5b", "sendMessage", "slack", "slackToken", "none",
                      {"channel", "meeting"}, FALSE) >> >>
      ELSE << << Call("4", "sendMessage", "slack", "slackToken", "none",
                      {"channel", "notionIncident", "issue"}, FALSE) >> >>)

IncidentPlan(severity) ==
  << << Call("1", "createDocument", "notion", "notionToken", "notionIncident", {}, TRUE) >>,
     << Call("2", "createIssue", "github", "githubToken", "issue",
             {"notionIncident"}, TRUE) >>,
     << Private(Call("3", "createReviewChannel", "slack", "slackToken", "channel",
                     {}, TRUE)) >>,
     << Call("4", "sendMessage", "slack", "slackToken", "none",
             {"channel", "notionIncident", "issue"}, FALSE) >> >>
  \o (IF Escalates(severity)
      THEN << << Call("5", "createMeeting", "calendar", "calendarToken", "meeting",
                      {"notionIncident", "issue", "channel"}, TRUE) >>,
              << Call("5b", "sendMessage", "slack", "slackToken", "none",
                      {"channel", "meeting"}, FALSE) >> >>
      ELSE << >>)

Plan(wf, severity) ==
  CASE wf = "scheduleCodeReview" -> CodeReviewPlan
    [] wf = "createProjectKickoff" -> KickoffPlan
    [] wf = "handleIncidentResponse" -> IncidentPlan(severity)

\* ------------------------------------------------- context and envelopes
\* A local constant of invocation i, read where a later step uses it.
CtxGetShared(cx, i, k) ==
  IF \E j \in Invs : j # i /\ cx[j][k] # NoRef
  THEN cx[CHOOSE j \in Invs : j # i /\ cx[j][k] # NoRef][k]
  ELSE cx[i][k]

CtxGet(cx, i, k) == cx[i][k]

\* What the collaborator hands back to invocation i for call c.
Result(i, c) == <<c.bind, i>>

\* The call as issued: the invocation's token and the values it passes.
MkCall(i, s, c, cx) ==
  [stage |-> s, step |-> c.step, op |-> c.op, collab |-> c.collab,
   token |-> <<c.token, i>>, bind |-> c.bind, creates |-> c.creates,
   visibility |-> c.visibility,
   args |-> {<<"args", i>>} \cup {CtxGet(cx, i, k) : k \in c.uses},
   status |-> "pending", error |-> << >>]

\* details of scheduleCodeReview's success envelope.
CodeReviewDetails(i, cx) ==
  ("repository" :> <<"args.repository", i>>)
  @@ ("pr_number" :> <<"args.pr_number", i>>)
  @@ ("issue_number" :> <<"args.issue_number", i>>)
  @@ ("slack_channel" :> CtxGet(cx, i, "channel"))
  @@ ("slack_url" :> CtxGet(cx, i, "channel"))
  @@ ("github_pr" :> CtxGet(cx, i, "prDetails"))
  @@ ("github_issue" :> CtxGet(cx, i, "issueDetails"))
  @@ ("meeting.time" :> CtxGet(cx, i, "meetingTime"))
  @@ ("meeting.url" :> CtxGet(cx, i, "meeting"))
  @@ ("meeting.attendees" :> CtxGet(cx, i, "prDetails"))
  @@ ("notion.title" :> CtxGet(cx, i, "prDetails"))
  @@ ("notion.url" :> CtxGet(cx, i, "notionPage"))

\* details of createProjectKickoff's success envelope.
KickoffDetails(i, cx) ==
  ("notion.pageId" :> CtxGet(cx, i, "notionProject"))
  @@ ("notion.url" :> CtxGet(cx, i, "notionProject"))
  @@ ("github.name" :> CtxGet(cx, i, "repository"))
  @@ ("github.url" :> CtxGet(cx, i, "repository"))
  @@ ("slack.channel" :> CtxGet(cx, i, "channel"))
  @@ ("slack.url" :> CtxGet(cx, i, "channel"))
  @@ ("meeting.id" :> CtxGet(cx, i, "meeting"))
  @@ ("meeting.time" :> CtxGet(cx, i, "meeting"))
  @@ ("meeting.url" :> CtxGet(cx, i, "meeting"))

\* details of handleIncidentResponse's success envelope.
IncidentDetails(i, cx) ==
  ("notion.documentId" :> CtxGet(cx, i, "notionIncident"))
  @@ ("notion.url" :> CtxGet(cx, i, "notionIncident"))
  @@ ("github.issueNumber" :> CtxGet(cx, i, "issue"))
  @@ ("github.url" :> CtxGet(cx, i, "issue"))
  @@ ("slack.channel" :> CtxGet(cx, i, "channel"))
  @@ ("slack.url" :> CtxGet(cx, i, "channel"))

Details(wf, i, cx) ==
  CASE wf = "scheduleCodeReview" -> CodeReviewDetails(i, cx)
    [] wf = "createProjectKickoff" -> KickoffDetails(i, cx)
    [] wf = "handleIncidentResponse" -> IncidentDetails(i, cx)

SuccessMessage(wf) ==
  CASE wf = "scheduleCodeReview" -> <<"Code review scheduled for PR #", "args.pr_number">>
    [] wf = "createProjectKickoff" -> <<"Project ", "args.project_name", " created successfully">>
    [] wf = "handleIncidentResponse" -> <<"Incident response initiated: ", "args.title">>

FailurePrefix(wf) ==
  CASE wf = "scheduleCodeReview" -> <<"Failed to schedule code review: ">>
    [] wf = "createProjectKickoff" -> <<"Failed to create project: ">>
    [] wf = "handleIncidentResponse" -> <<"Failed to initiate incident response: ">>

\* The envelope of the success return.
SuccessEnvelope(wf, i, cx, elapsed) ==
  [success |-> TRUE, message |-> SuccessMessage(wf), executionTime |-> elapsed,
   details |-> Details(wf, i, cx)]

\* The envelope of the catch block's return.
FailureEnvelopeGeneric(wf, errText, elapsed) ==
  [success |-> FALSE, message |-> FailurePrefix(wf) \o <<"unknown error">>,
   executionTime |-> elapsed]

FailureEnvelope(wf, errText, elapsed) ==
  [success |-> FALSE, message |-> FailurePrefix(wf) \o errText,
   executionTime |-> elapsed]

\* The catch block: what it hands to the caller, the collaborator calls it
\* issues and the external artifacts it deletes.
CatchRethrows(i, wf, errText, elapsed, arts) ==
  [outcome |-> [kind |-> "throw", error |-> errText],
   issue |-> << >>, deleted |-> {}]

CatchNotifies(i, wf, errText, elapsed, arts) ==
  [outcome |-> [kind |-> "return", envelope |-> FailureEnvelope(wf, errText, elapsed)],
   issue |-> << [stage |-> 0, step |-> "catch", op |-> "sendMessage",
                 collab |-> "slack", token |-> <<"slackToken", i>>,
                 bind |-> "none", creates |-> FALSE, visibility |-> "unset",
                 args |-> {<<"args", i>>},
                 status |-> "pending", error |-> << >>] >>,
   deleted |-> {}]

CatchRollsBack(i, wf, errText, elapsed, arts) ==
  [outcome |-> [kind |-> "return", envelope |-> FailureEnvelope(wf, errText, elapsed)],
   issue |-> << >>, deleted |-> {a \in arts : a[2] = i}]

CatchReportsArtifacts(i, wf, errText, elapsed, arts) ==
  [outcome |-> [kind |-> "return",
                envelope |-> IF Cardinality({a \in arts : a[2] = i}) >= 3
                             THEN SuccessEnvelope(wf, i, ctx, elapsed)
                             ELSE FailureEnvelope(wf, errText, elapsed)],
   issue |-> << >>, deleted |-> {}]

CatchHandler(i, wf, errText, elapsed, arts) ==
  [outcome |-> [kind |-> "return", envelope |-> FailureEnvelope(wf, errText, elapsed)],
   issue |-> << >>, deleted |-> {}]

\* ----------------------------------------------------------------- Init
\* { ...defaultWorkflowConfig, ...config }: a key of the overrides wins.
ConfigKeys == {"workingHours", "reviewDuration"}
DefaultWorkflowConfig == [k \in ConfigKeys |-> <<"default", 0>>]
Overrides ==
  {<< >>, [k \in {"reviewDuration"} |-> <<"override", 0>>],
   [k \in {"timezone"} |-> <<"override", 0>>]}
MergedConfig(o) ==
  [k \in DOMAIN DefaultWorkflowConfig \cup DOMAIN o |->
     IF k \in DOMAIN o THEN o[k] ELSE DefaultWorkflowConfig[k]]

InitOrchestrator ==
  /\ inv = [i \in Invs |-> [wf |-> "none", severity |-> "none", pc |-> "idle",
                            stage |-> 0, startTime |-> 0]]
  /\ ctx = [i \in Invs |-> [k \in CtxKeys |-> NoRef]]
  /\ calls = [i \in Invs |-> << >>]
  /\ outcome = [i \in Invs |-> << >>]
  /\ artifacts = {}
  /\ now = 0
  /\ present = [c \in Collabs |-> TRUE]
  /\ isInitialized = FALSE
  /\ collab = [c \in Collabs |-> "constructed"]
  /\ initPc = "idle"
  /\ initTrace = << >>
  /\ initResults = << >>
  /\ cleanupPc = "idle"
  /\ cleanupTrace = << >>
  /\ cleanupResults = << >>
  /\ retained = {}

\* new WorkflowOrchestrator(): config = {}
Init ==
  /\ InitOrchestrator
  /\ derived = [of |-> "nothing"]
  /\ config = MergedConfig(<< >>)

\* new WorkflowOrchestrator(config)
InitConfigured ==
  /\ InitOrchestrator
  /\ derived = [of |-> "nothing"]
  /\ \E o \in Overrides : config = MergedConfig(o)

\* ------------------------------------------------------- workflow steps
\* The first call of a stage whose collaborator field holds no object: the
\* property access throws there, after the calls before it were issued.
FirstMissingOrUninitialized(stage) ==
  IF ~isInitialized THEN 1
  ELSE IF \E n \in 1..Len(stage) : ~present[stage[n].collab]
       THEN CHOOSE n \in 1..Len(stage) :
              /\ ~present[stage[n].collab]
              /\ \A m \in 1..(n - 1) : present[stage[m].collab]
       ELSE Len(stage) + 1

FirstMissing(stage) ==
  IF \E n \in 1..Len(stage) : ~present[stage[n].collab]
  THEN CHOOSE n \in 1..Len(stage) :
         /\ ~present[stage[n].collab]
         /\ \A m \in 1..(n - 1) : present[stage[m].collab]
  ELSE Len(stage) + 1

\* The destructuring / const binding of the results of stage s.
Bind(i, s, cl) ==
  [ctx EXCEPT ![i] =
     [k \in CtxKeys |->
        IF \E m \in 1..Len(cl) : cl[m].stage = s /\ cl[m].bind = k
        THEN <<k, i>>
        ELSE @[k]]]

\* Date.now() - startTime, as every return path computes it.
ElapsedSwapped(me) == me.startTime - now

Elapsed(me) == now - me.startTime

\* An error reaches the catch block of invocation i.
Caught(i, me, errText, cl, arts) ==
  LET h == CatchHandler(i, me.wf, errText, Elapsed(me), arts) IN
  /\ inv' = [inv EXCEPT ![i] = [me EXCEPT !.pc = "done"]]
  /\ calls' = [calls EXCEPT ![i] = cl \o h.issue]
  /\ outcome' = [outcome EXCEPT ![i] = Append(@, h.outcome)]
  /\ artifacts' = arts \ h.deleted

\* Invocation i runs on from stage s: it issues the calls of stage s and
\* suspends, or returns the success envelope when no stage is left.
Continue(i, me, s, cx, cl, arts) ==
  LET plan == Plan(me.wf, me.severity) IN
  IF s > Len(plan)
  THEN /\ inv' = [inv EXCEPT ![i] = [me EXCEPT !.pc = "done", !.stage = s]]
       /\ calls' = [calls EXCEPT ![i] = cl]
       /\ outcome' = [outcome EXCEPT ![i] =
                        Append(@, [kind |-> "return",
                                   envelope |-> SuccessEnvelope(me.wf, i, cx,
                                                                Elapsed(me))])]
       /\ artifacts' = arts
  ELSE LET stage == plan[s]
           m == FirstMissing(stage)
           issued == [n \in 1..(m - 1) |-> MkCall(i, s, stage[n], cx)]
       IN IF m > Len(stage)
          THEN /\ inv' = [inv EXCEPT ![i] = [me EXCEPT !.pc = "running", !.stage = s]]
               /\ calls' = [calls EXCEPT ![i] = cl \o issued]
               /\ outcome' = outcome
               /\ artifacts' = arts
          ELSE Caught(i, [me EXCEPT !.stage = s], TypeErrorText, cl \o issued, arts)

\* A caller invokes one of the three procedures.
\* What a procedure assigns to fields of this: it reads this.github,
\* this.slack, this.notion and this.calendar and writes none.
AssignsUserContext(i) ==
  {<<"githubToken", i>>, <<"slackToken", i>>, <<"notionToken", i>>,
   <<"calendarToken", i>>}

AssignsToThis(i) == {}

Invoke(i, r) ==
  /\ inv[i].pc = "idle"
  /\ retained' = retained \cup AssignsToThis(i)
  /\ config' = config
  /\ LET me == [wf |-> r.wf, severity |-> r.severity, pc |-> "running",
                stage |-> 0, startTime |-> now]
     IN Continue(i, me, 1, ctx, calls[i], artifacts)
  /\ UNCHANGED <<ctx, now, present>>
  /\ UNCHANGED <<lifeVars, derived>>

\* Invocation i is suspended on the await that call c belongs to: a promise
\* resumes its awaiter once, and after the return nothing awaits.
AwaitingAfterReturn(me, c) == c.stage = me.stage

Awaiting(me, c) == me.pc = "running" /\ c.stage = me.stage

\* The collaborator resolves call n of invocation i.
Resolve(i, n) ==
  /\ n \in 1..Len(calls[i])
  /\ calls[i][n].status = "pending"
  /\ LET c == calls[i][n]
         cl == [calls[i] EXCEPT ![n].status = "resolved"]
         arts == IF c.creates THEN artifacts \cup {Result(i, c)} ELSE artifacts
         me == inv[i]
     IN IF /\ Awaiting(me, c)
           /\ \A m \in 1..Len(cl) : cl[m].stage = me.stage => cl[m].status = "resolved"
        THEN LET cx == Bind(i, me.stage, cl) IN
             /\ ctx' = cx
             /\ Continue(i, me, me.stage + 1, cx, cl, arts)
        ELSE /\ calls' = [calls EXCEPT ![i] = cl]
             /\ artifacts' = arts
             /\ UNCHANGED <<inv, ctx, outcome>>
  /\ UNCHANGED <<now, present>>
  /\ UNCHANGED <<lifeVars, derived, ownVars>>

\* Promise.all rejects with the first rejection of its members; a lone await
\* rejects with the rejection of its one promise.
RejectsWhenAllSettled(cl, s) ==
  \A m \in 1..Len(cl) : cl[m].stage = s => cl[m].status # "pending"

RejectsAtFirstRejection(cl, s) ==
  \E m \in 1..Len(cl) : cl[m].stage = s /\ cl[m].status = "rejected"

\* The collaborator rejects call n of invocation i with error text e.
Reject(i, n, e) ==
  /\ n \in 1..Len(calls[i])
  /\ calls[i][n].status = "pending"
  /\ LET c == calls[i][n]
         cl == [calls[i] EXCEPT ![n].status = "rejected", ![n].error = e]
         me == inv[i]
     IN IF Awaiting(me, c) /\ RejectsAtFirstRejection(cl, me.stage)
        THEN Caught(i, me, e, cl, artifacts)
        ELSE /\ calls' = [calls EXCEPT ![i] = cl]
             /\ UNCHANGED <<inv, outcome, artifacts>>
  /\ UNCHANGED <<ctx, now, present>>
  /\ UNCHANGED <<lifeVars, derived, ownVars>>

\* Date.now() advances.
Tick ==
  /\ now < MaxClock
  /\ now' = now + 1
  /\ UNCHANGED <<inv, ctx, calls, outcome, artifacts, present>>
  /\ UNCHANGED <<lifeVars, derived, ownVars>>

\* Code outside the class clears one of the public collaborator fields.
Detach(c) ==
  /\ present[c]
  /\ Cardinality({d \in Collabs : ~present[d]}) < MaxMissing
  /\ present' = [present EXCEPT ![c] = FALSE]
  /\ UNCHANGED <<inv, ctx, calls, outcome, artifacts, now>>
  /\ UNCHANGED <<lifeVars, derived, ownVars>>

Workflow(i, requests, errTexts) ==
  \/ \E r \in requests : Invoke(i, r)
  \/ \E n \in 1..Len(calls[i]) : Resolve(i, n)
  \/ \E n \in 1..Len(calls[i]) : \E e \in errTexts : Reject(i, n, e)

\* One invocation, with the clock running and collaborator fields that
\* may be missing.
Next ==
  \/ Tick
  \/ \E c \in Collabs : Detach(c)
  \/ Workflow(1, Requests, ErrTexts)

Spec == Init /\ [][Next]_vars

\* Some pending call of invocation i settles.
Settle(i) ==
  \E n \in 1..Len(calls[i]) :
    Resolve(i, n) \/ \E e \in ErrTexts : Reject(i, n, e)

\* The same, with every collaborator call settling in the end.
SpecFair == Init /\ [][Next]_vars /\ WF_vars(Settle(1))

\* Up to MaxInv invocations in flight on the same orchestrator; one
\* incident request of each kind and one error text keep the product of the
\* invocations' states small.
ConcurrentRequests == {r \in Requests : r.severity \in {"none", "low", "critical"}}

NextConcurrent ==
  \E i \in Invs : Workflow(i, ConcurrentRequests, {<<"no slot available">>})

SpecConcurrent == Init /\ [][NextConcurrent]_vars

\* ------------------------------------------------------------ lifecycle
\* initialize() awaits the collaborators in this order.
InitOrderChatFirst == <<"slack", "github", "notion", "calendar">>

InitOrder == <<"github", "slack", "notion", "calendar">>

\* cleanup() visits the collaborators in this order.
CleanupOrder == <<"github", "slack", "notion", "calendar">>

\* if (this.github) ... : cleanup() calls a collaborator only when the field
\* holds an object.
CleanupUnguarded(c) == TRUE

CleanupGuard(c) == present[c]

Event(ev, c, errText) == [ev |-> ev, c |-> c, error |-> errText]

Returned == [kind |-> "return", error |-> << >>]
Threw(errText) == [kind |-> "throw", error |-> errText]

\* initialize() runs on from position k of InitOrder with trace tr.
InitFrom(k, tr) ==
  IF k > Len(InitOrder)
  THEN /\ isInitialized' = TRUE
       /\ initPc' = "idle"
       /\ initTrace' = tr
       /\ initResults' = Append(initResults, Returned)
  ELSE IF present[InitOrder[k]]
       THEN /\ initPc' = InitOrder[k]
            /\ initTrace' = Append(tr, Event("issue", InitOrder[k], << >>))
            /\ UNCHANGED <<isInitialized, initResults>>
       ELSE /\ initPc' = "idle"
            /\ initTrace' = Append(tr, Event("typeerror", InitOrder[k], TypeErrorText))
            /\ initResults' = Append(initResults, Threw(TypeErrorText))
            /\ UNCHANGED isInitialized

PositionIn(order, c) == CHOOSE k \in 1..Len(order) : order[k] = c

\* A caller invokes initialize().
InitStart ==
  /\ initPc = "idle"
  /\ Len(initResults) < MaxInitCalls
  /\ InitFrom(1, << >>)
  /\ UNCHANGED <<collab, cleanupPc, cleanupTrace, cleanupResults>>
  /\ UNCHANGED <<inv, ctx, calls, outcome, artifacts, now, present, derived, ownVars>>

\* The awaited collaborator's initialize() resolves.
InitResolve ==
  /\ initPc # "idle"
  /\ collab' = [collab EXCEPT ![initPc] = "initialized"]
  /\ InitFrom(PositionIn(InitOrder, initPc) + 1,
              Append(initTrace, Event("resolve", initPc, << >>)))
  /\ UNCHANGED <<cleanupPc, cleanupTrace, cleanupResults>>
  /\ UNCHANGED <<inv, ctx, calls, outcome, artifacts, now, present, derived, ownVars>>

\* The awaited collaborator's initialize() rejects: the await throws and
\* nothing catches it.
InitReject(e) ==
  /\ initPc # "idle"
  /\ initPc' = "idle"
  /\ initTrace' = Append(initTrace, Event("reject", initPc, e))
  /\ initResults' = Append(initResults, Threw(e))
  /\ UNCHANGED <<isInitialized, collab, cleanupPc, cleanupTrace, cleanupResults>>
  /\ UNCHANGED <<inv, ctx, calls, outcome, artifacts, now, present, derived, ownVars>>

\* The first position from k on whose guard lets the call through.
NextGuarded(k) ==
  IF \E n \in k..Len(CleanupOrder) : CleanupGuard(CleanupOrder[n])
  THEN CHOOSE n \in k..Len(CleanupOrder) :
         /\ CleanupGuard(CleanupOrder[n])
         /\ \A m \in k..(n - 1) : ~CleanupGuard(CleanupOrder[m])
  ELSE Len(CleanupOrder) + 1

\* isInitialized when cleanup() returns: cleanup() does not assign it.
FlagClearedByCleanup == FALSE

FlagAfterCleanup == isInitialized

\* cleanup() runs on from position k of CleanupOrder with trace tr.
CleanupFrom(k, tr) ==
  LET n == NextGuarded(k)
      skipped == [m \in 1..(n - k) |-> Event("skip", CleanupOrder[k + m - 1], << >>)]
  IN IF n > Len(CleanupOrder)
     THEN /\ cleanupPc' = "idle"
          /\ cleanupTrace' = tr \o skipped
          /\ cleanupResults' = Append(cleanupResults, Returned)
          /\ isInitialized' = FlagAfterCleanup
     ELSE IF present[CleanupOrder[n]]
          THEN /\ cleanupPc' = CleanupOrder[n]
               /\ cleanupTrace' = (tr \o skipped)
                                  \o <<Event("issue", CleanupOrder[n], << >>)>>
               /\ UNCHANGED <<cleanupResults, isInitialized>>
          ELSE /\ cleanupPc' = "idle"
               /\ cleanupTrace' = (tr \o skipped)
                                  \o <<Event("typeerror", CleanupOrder[n], TypeErrorText)>>
               /\ cleanupResults' = Append(cleanupResults, Threw(TypeErrorText))
               /\ UNCHANGED isInitialized

\* A caller invokes cleanup().
CleanupStart ==
  /\ cleanupPc = "idle"
  /\ Len(cleanupResults) < MaxCleanupCalls
  /\ CleanupFrom(1, << >>)
  /\ UNCHANGED <<collab, initPc, initTrace, initResults>>
  /\ UNCHANGED <<inv, ctx, calls, outcome, artifacts, now, present, derived, ownVars>>

\* The awaited collaborator's cleanup() resolves.
CleanupResolve ==
  /\ cleanupPc # "idle"
  /\ collab' = [collab EXCEPT ![cleanupPc] = "cleaned"]
  /\ CleanupFrom(PositionIn(CleanupOrder, cleanupPc) + 1,
                 Append(cleanupTrace, Event("resolve", cleanupPc, << >>)))
  /\ UNCHANGED <<initPc, initTrace, initResults>>
  /\ UNCHANGED <<inv, ctx, calls, outcome, artifacts, now, present, derived, ownVars>>

\* The awaited collaborator's cleanup() rejects: the await throws and
\* nothing catches it.
CleanupReject(e) ==
  /\ cleanupPc # "idle"
  /\ cleanupPc' = "idle"
  /\ cleanupTrace' = Append(cleanupTrace, Event("reject", cleanupPc, e))
  /\ cleanupResults' = Append(cleanupResults, Threw(e))
  /\ UNCHANGED <<isInitialized, collab, initPc, initTrace, initResults>>
  /\ UNCHANGED <<inv, ctx, calls, outcome, artifacts, now, present, derived, ownVars>>

\* initialize() and cleanup() called by the owner of the orchestrator, with
\* collaborator fields that may be missing.
NextLifecycle ==
  \/ InitStart
  \/ InitResolve
  \/ \E e \in ErrTexts : InitReject(e)
  \/ CleanupStart
  \/ CleanupResolve
  \/ \E e \in ErrTexts : CleanupReject(e)
  \/ \E c \in Collabs : Detach(c)

SpecLifecycle == Init /\ [][NextLifecycle]_vars

\* One invocation on an orchestrator whose owner calls initialize() and
\* cleanup() at any moment before, during or after it.
NextService ==
  \/ Workflow(1, ConcurrentRequests, {<<"no slot available">>})
  \/ InitStart
  \/ InitResolve
  \/ InitReject(<<"rate", "limited">>)
  \/ CleanupStart
  \/ CleanupResolve
  \/ CleanupReject(<<"rate", "limited">>)

SpecService == InitConfigured /\ [][NextService]_vars

\* ------------------------------------------- names and attendee lists
\* .substring(0, 80)
SlugMax == 80

\* Bounds of the arguments tried.
MaxPR == 10
MaxSuffix == 2
MaxPad == 8
MaxList == 2

\* A string is the sequence of its UTF-16 code units.
UpperCase == <<"A", "B", "C", "D", "E", "F", "G", "H", "I", "J", "K", "L", "M",
               "N", "O", "P", "Q", "R", "S", "T", "U", "V", "W", "X", "Y", "Z">>
LowerCase == <<"a", "b", "c", "d", "e", "f", "g", "h", "i", "j", "k", "l", "m",
               "n", "o", "p", "q", "r", "s", "t", "u", "v", "w", "x", "y", "z">>
Digits == <<"0", "1", "2", "3", "4", "5", "6", "7", "8", "9">>

\* [a-z0-9-]
SlugChars ==
  {LowerCase[k] : k \in 1..26} \cup {Digits[k] : k \in 1..10} \cup {"-"}

\* toLowerCase() of one code unit: U+0130 becomes the two units i, U+0307.
Lower(ch) ==
  IF \E k \in 1..26 : UpperCase[k] = ch
  THEN << LowerCase[CHOOSE k \in 1..26 : UpperCase[k] = ch] >>
  ELSE IF ch = "U+0130" THEN <<"i", "U+0307">> ELSE <<ch>>

RECURSIVE ToLowerCase(_)
ToLowerCase(str) ==
  IF str = << >> THEN << >> ELSE Lower(Head(str)) \o ToLowerCase(Tail(str))

\* .replace(/[^a-z0-9-]/g, '-')
Replace(str) ==
  [k \in 1..Len(str) |-> IF str[k] \in SlugChars THEN str[k] ELSE "-"]

\* .substring(0, end)
Substring(str, end) == SubSeq(str, 1, IF end < Len(str) THEN end ELSE Len(str))

\* ${n} of a non-negative integer
RECURSIVE NumToStr(_)
NumToStr(n) ==
  IF n < 10 THEN << Digits[n + 1] >>
  ELSE NumToStr(n \div 10) \o << Digits[(n % 10) + 1] >>

\* channelData.name of scheduleCodeReview
ChannelNameUncut(pr_number, title) ==
  <<"p", "r", "-">> \o NumToStr(pr_number) \o <<"-">> \o Replace(ToLowerCase(title))

ChannelName(pr_number, title) ==
  Substring(<<"p", "r", "-">> \o NumToStr(pr_number) \o <<"-">>
              \o Replace(ToLowerCase(title)), SlugMax)

\* repoName and channelData.name of createProjectKickoff
RepoName(project_name) == Replace(ToLowerCase(project_name))

KickoffChannelName(repoName) == <<"p", "r", "o", "j", "-">> \o repoName

\* The values an email field can hold; the falsy ones are dropped.
Undefined == "(undefined)"
Null == "(null)"
Falsy == {Undefined, Null, ""}
Truthy(v) == v \notin Falsy

\* args.additional_attendees || []
OrEmpty(extras) == IF extras.given THEN extras.list ELSE << >>

\* attendees of scheduleCodeReview
AttendeesAuthorFirst(reviewers, author, extras) ==
  SelectSeq(<<author>> \o reviewers \o OrEmpty(extras), Truthy)

Attendees(reviewers, author, extras) ==
  SelectSeq(reviewers \o <<author>> \o OrEmpty(extras), Truthy)

\* The arguments tried: titles and project names run up to and past SlugMax.
CodeUnits == {"a", "B", "7", "-", " ", "U+0130"}
Emails == {"a@x.com", "b@x.com", Undefined, ""}
SeqsUpTo(S, n) == UNION {[1..k -> S] : k \in 0..n}
PadLens == {0} \cup ((SlugMax - MaxPad)..SlugMax)
Texts == {[k \in 1..p |-> "x"] \o t : p \in PadLens, t \in SeqsUpTo(CodeUnits, MaxSuffix)}
Lists == SeqsUpTo(Emails, MaxList)

DerivedArgs ==
  {[of |-> "channelData.name", pr_number |-> n, title |-> t, done |-> FALSE] :
     n \in 1..MaxPR, t \in Texts}
  \cup {[of |-> "repoName", project_name |-> t, done |-> FALSE] : t \in Texts}
  \cup {[of |-> "attendees", reviewers |-> r, author |-> a, extras |-> x,
          done |-> FALSE] :
          r \in Lists, a \in Emails,
          x \in {[given |-> TRUE, list |-> l] : l \in Lists}
                \cup {[given |-> FALSE, list |-> << >>]}}

InitDerive ==
  /\ InitOrchestrator
  /\ config = MergedConfig(<< >>)
  /\ derived \in DerivedArgs

DeriveChannelName ==
  /\ derived.of = "channelData.name"
  /\ ~derived.done
  /\ derived' = [of |-> derived.of, pr_number |-> derived.pr_number,
                 title |-> derived.title, done |-> TRUE,
                 name |-> ChannelName(derived.pr_number, derived.title)]
  /\ UNCHANGED <<wfVars, now, present, lifeVars, ownVars>>

DeriveRepoName ==
  /\ derived.of = "repoName"
  /\ ~derived.done
  /\ LET repoName == RepoName(derived.project_name) IN
       derived' = [of |-> derived.of, project_name |-> derived.project_name,
                   done |-> TRUE, repoName |-> repoName,
                   name |-> KickoffChannelName(repoName)]
  /\ UNCHANGED <<wfVars, now, present, lifeVars, ownVars>>

DeriveAttendees ==
  /\ derived.of = "attendees"
  /\ ~derived.done
  /\ derived' = [of |-> derived.of, reviewers |-> derived.reviewers,
                 author |-> derived.author, extras |-> derived.extras,
                 done |-> TRUE,
                 attendees |-> Attendees(derived.reviewers, derived.author,
                                         derived.extras)]
  /\ UNCHANGED <<wfVars, now, present, lifeVars, ownVars>>

NextDerive == DeriveChannelName \/ DeriveRepoName \/ DeriveAttendees

SpecDerive == InitDerive /\ [][NextDerive]_vars

\* ---------------------------------------------------------------- claims
Last(seq) == seq[Len(seq)]

Contains(text, part) ==
  \E k \in 1..(Len(text) - Len(part) + 1) : SubSeq(text, k, k + Len(part) - 1) = part

HasRejected(cl) == \E n \in 1..Len(cl) : cl[n].status = "rejected"

ReturnedEnvelope(i) == Len(outcome[i]) = 1 /\ outcome[i][1].kind = "return"

Succeeded(i) == ReturnedEnvelope(i) /\ outcome[i][1].envelope.success

Failed(i) == ReturnedEnvelope(i) /\ ~outcome[i][1].envelope.success

Issued(i, op) == {n \in 1..Len(calls[i]) : calls[i][n].op = op}

\* What the collaborators have handed back to invocation i before its call n.
ReturnedTo(i, n) ==
  {<<calls[i][m].bind, i>> :
     m \in {m \in 1..Len(calls[i]) : m < n /\ calls[i][m].status = "resolved"}}

\* The operations invocation i has issued, in the order it issued them.
OpsOf(i) == [n \in 1..Len(calls[i]) |-> calls[i][n].op]

IsPrefix(s, t) == Len(s) <= Len(t) /\ s = SubSeq(t, 1, Len(s))

\* Every call of invocation i before its call n has resolved.
AllResolvedBefore(i, n) == \A m \in 1..(n - 1) : calls[i][m].status = "resolved"

Pending(i) == {n \in 1..Len(calls[i]) : calls[i][n].status = "pending"}

\* C1: a procedure hands its caller nothing but returned envelopes, and an
\* invocation in which a collaborator call was rejected has ended by
\* returning exactly one envelope: the rejection never escapes as a throw.
C1_NeverThrows ==
  \A i \in Invs :
    /\ \A k \in 1..Len(outcome[i]) : outcome[i][k].kind = "return"
    /\ HasRejected(calls[i]) => (inv[i].pc = "done" /\ ReturnedEnvelope(i))

\* C1 witness: an incident-response invocation whose channel creation was
\* rejected has returned.
C1_Witness ==
  \E i \in Invs :
    /\ inv[i].wf = "handleIncidentResponse"
    /\ \E n \in 1..Len(calls[i]) :
         calls[i][n].op = "createReviewChannel" /\ calls[i][n].status = "rejected"
    /\ ReturnedEnvelope(i)

\* C2: when exactly one collaborator call of an invocation was rejected, with
\* error text E, the invocation returned an envelope with success = false, a
\* message containing E, an executionTime field and no details key.
C2_FailureEnvelope ==
  \A i \in Invs : \A n \in 1..Len(calls[i]) :
    (/\ calls[i][n].status = "rejected"
     /\ \A m \in 1..Len(calls[i]) : m # n => calls[i][m].status # "rejected")
    => /\ ReturnedEnvelope(i)
       /\ outcome[i][1].envelope.success = FALSE
       /\ Contains(outcome[i][1].envelope.message, calls[i][n].error)
       /\ "executionTime" \in DOMAIN outcome[i][1].envelope
       /\ "details" \notin DOMAIN outcome[i][1].envelope

\* C2 witness: a kickoff whose slot search was rejected with the two-word
\* error text has returned its failure envelope.
C2_Witness ==
  \E i \in Invs :
    /\ inv[i].wf = "createProjectKickoff"
    /\ \E n \in 1..Len(calls[i]) :
         /\ calls[i][n].op = "findOptimalTime"
         /\ calls[i][n].status = "rejected"
         /\ calls[i][n].error = <<"rate", "limited">>
    /\ Failed(i)

\* C3 (as claimed): an invocation all of whose collaborator calls resolved, on
\* an orchestrator with every collaborator in place, returned success = true
\* and its details name every artifact the invocation created.
C3_DetailsNameEveryArtifact ==
  \A i \in Invs :
    (/\ inv[i].pc = "done"
     /\ \A c \in Collabs : present[c]
     /\ \A n \in 1..Len(calls[i]) : calls[i][n].status = "resolved")
    => /\ Succeeded(i)
       /\ \A a \in artifacts :
            a[2] = i =>
              \E k \in DOMAIN outcome[i][1].envelope.details :
                outcome[i][1].envelope.details[k] = a

\* C4: a step that leaves an invocation with a rejected call issues no
\* collaborator call for it, in that step or ever after, and the invocation
\* has ended with one failure envelope.
C4_NoCallAfterReject ==
  [][\A i \in Invs :
       HasRejected(calls'[i]) =>
         /\ Len(calls'[i]) = Len(calls[i])
         /\ inv'[i].pc = "done"
         /\ Len(outcome'[i]) = 1
         /\ outcome'[i][1].kind = "return"
         /\ ~outcome'[i][1].envelope.success]_vars

\* C4 witness: a kickoff has ended on the rejection of its second call with
\* none of the four later calls issued.
C4_Witness ==
  \E i \in Invs :
    /\ inv[i].wf = "createProjectKickoff"
    /\ inv[i].pc = "done"
    /\ Len(calls[i]) = 2
    /\ calls[i][1].status = "resolved"
    /\ calls[i][2].status = "rejected"

\* C5: no step removes an external artifact, every artifact a resolved
\* creating call produced exists, and every call issued is one of the
\* creating, fetching or posting operations: nothing deletes or compensates.
C5_ArtifactsOnlyGrow ==
  [][/\ artifacts \subseteq artifacts'
     /\ \A i \in Invs : \A n \in 1..Len(calls'[i]) :
          /\ calls'[i][n].op \in
               {"getPullRequest", "getIssue", "createIssue", "createRepository",
                "createReviewChannel", "sendMessage", "createDocument",
                "createProjectPage", "findOptimalTime", "createMeeting"}
          /\ (calls'[i][n].creates /\ calls'[i][n].status = "resolved")
               => <<calls'[i][n].bind, i>> \in artifacts']_vars

\* C5 witness: a code-review invocation failed at the document step and the
\* channel and the meeting it created before still exist.
C5_Witness ==
  \E i \in Invs :
    /\ inv[i].wf = "scheduleCodeReview"
    /\ Failed(i)
    /\ \E n \in 1..Len(calls[i]) :
         calls[i][n].op = "createDocument" /\ calls[i][n].status = "rejected"
    /\ {<<"channel", i>>, <<"meeting", i>>} \subseteq artifacts

\* C6: a successful incident-response invocation issued exactly one channel
\* creation and one alert message; with severity 'high' or 'critical' also
\* exactly one meeting creation and one "join now" message, and with any
\* other severity no meeting creation and no second message.
C6_IncidentCounts ==
  \A i \in Invs :
    (inv[i].wf = "handleIncidentResponse" /\ Succeeded(i)) =>
      /\ Cardinality(Issued(i, "createReviewChannel")) = 1
      /\ Cardinality({n \in Issued(i, "sendMessage") : calls[i][n].step = "4"}) = 1
      /\ IF inv[i].severity \in {"high", "critical"}
         THEN /\ Cardinality(Issued(i, "createMeeting")) = 1
              /\ Cardinality(Issued(i, "sendMessage")) = 2
              /\ Cardinality({n \in Issued(i, "sendMessage") :
                                calls[i][n].step = "5b"}) = 1
         ELSE /\ Cardinality(Issued(i, "createMeeting")) = 0
              /\ Cardinality(Issued(i, "sendMessage")) = 1

\* C6 witness: an incident of severity 'high' succeeded with its meeting.
C6_Witness ==
  \E i \in Invs :
    /\ inv[i].wf = "handleIncidentResponse"
    /\ inv[i].severity = "high"
    /\ Succeeded(i)
    /\ <<"meeting", i>> \in artifacts

\* C7: in the code-review workflow, whenever one of the two fetches settles
\* both have been issued, and any other call is issued only with both
\* fetches resolved.
C7_FanOutJoin ==
  [][\A i \in Invs :
       inv'[i].wf = "scheduleCodeReview" =>
         /\ \A n \in 1..Len(calls[i]) :
              (/\ calls[i][n].op \in {"getPullRequest", "getIssue"}
               /\ calls[i][n].status = "pending"
               /\ calls'[i][n].status # "pending")
              => /\ Issued(i, "getPullRequest") # {}
                 /\ Issued(i, "getIssue") # {}
         /\ \A n \in 1..Len(calls'[i]) :
              calls'[i][n].op \notin {"getPullRequest", "getIssue"}
              => \A m \in 1..Len(calls'[i]) :
                   calls'[i][m].op \in {"getPullRequest", "getIssue"}
                   => calls'[i][m].status = "resolved"]_vars

\* C7 witness: the pull-request fetch has resolved while the issue fetch is
\* still pending, and nothing else has been issued.
C7_Witness ==
  \E i \in Invs :
    /\ inv[i].wf = "scheduleCodeReview"
    /\ Len(calls[i]) = 2
    /\ calls[i][1].op = "getPullRequest" /\ calls[i][1].status = "resolved"
    /\ calls[i][2].op = "getIssue" /\ calls[i][2].status = "pending"

\* C8: every call of an invocation carries that invocation's token and only
\* its own request and values the collaborators returned to its own earlier
\* calls; so do its bound constants and the details of its envelope.
C8_InvocationLocal ==
  \A i \in Invs :
    /\ \A n \in 1..Len(calls[i]) :
         /\ calls[i][n].token[2] = i
         /\ \A r \in calls[i][n].args : r = <<"args", i>> \/ r \in ReturnedTo(i, n)
    /\ \A k \in CtxKeys :
         ctx[i][k] # NoRef => ctx[i][k] \in ReturnedTo(i, Len(calls[i]) + 1)
    /\ Succeeded(i) =>
         \A k \in DOMAIN outcome[i][1].envelope.details :
           \/ outcome[i][1].envelope.details[k] \in ReturnedTo(i, Len(calls[i]) + 1)
           \/ outcome[i][1].envelope.details[k] \in
                {<<"args.repository", i>>, <<"args.pr_number", i>>,
                 <<"args.issue_number", i>>}

\* C8 witness: two invocations are in flight, each with a channel of its
\* own, and one of them has passed its channel to a later call.
C8_Witness ==
  \E i \in Invs : \E j \in Invs :
    /\ i # j
    /\ inv[i].pc = "running" /\ inv[j].pc = "running"
    /\ ctx[i]["channel"] = <<"channel", i>>
    /\ ctx[j]["channel"] = <<"channel", j>>
    /\ \E n \in 1..Len(calls[i]) : <<"channel", i>> \in calls[i][n].args

\* C3, the part the code keeps: the same, for every artifact but the meeting
\* of an escalated incident-response run, which the details leave out.
C3_AllButEscalationMeeting ==
  \A i \in Invs :
    (/\ inv[i].pc = "done"
     /\ \A c \in Collabs : present[c]
     /\ \A n \in 1..Len(calls[i]) : calls[i][n].status = "resolved")
    => /\ Succeeded(i)
       /\ \A a \in artifacts :
            (a[2] = i /\ ~(inv[i].wf = "handleIncidentResponse" /\ a[1] = "meeting"))
            => \E k \in DOMAIN outcome[i][1].envelope.details :
                 outcome[i][1].envelope.details[k] = a

\* The collaborator the k-th event of a run of initialize() is about.
InitEventCollab(k) == <<"github", "slack", "notion", "calendar">>[(k + 1) \div 2]

\* A run of initialize() has ended.
InitEnded == initPc = "idle" /\ initResults # << >>

InitThrew == InitEnded /\ Last(initResults).kind = "throw"

\* C9: initialize() issues the collaborators' initialize() one at a time in
\* the order github, slack, notion, calendar, each after the one before it
\* resolved; a rejection ends the run with that error thrown to the caller
\* and no later collaborator called; isInitialized is true only once a run
\* resolved all four; and the step that ends a run with a throw leaves
\* isInitialized as it was and tears no collaborator down.
C9_InitializeInOrder ==
  [][/\ Len(initTrace') <= 8
     /\ \A k \in 1..Len(initTrace') :
          /\ initTrace'[k].c = InitEventCollab(k)
          /\ initTrace'[k].ev \in
               (IF k % 2 = 1 THEN {"issue", "typeerror"} ELSE {"resolve", "reject"})
          /\ initTrace'[k].ev \in {"reject", "typeerror"} => k = Len(initTrace')
     /\ isInitialized' <=>
          \E r \in 1..Len(initResults') : initResults'[r].kind = "return"
     /\ (initPc' = "idle" /\ initTrace' # << >>) =>
          IF Last(initTrace').ev = "resolve"
          THEN Len(initTrace') = 8 /\ Last(initResults').kind = "return"
          ELSE /\ Last(initTrace').ev \in {"reject", "typeerror"}
               /\ Last(initResults') = [kind |-> "throw", error |-> Last(initTrace').error]
     /\ (/\ Len(initResults') > Len(initResults)
         /\ Last(initResults').kind = "throw")
        => /\ isInitialized' = isInitialized
           /\ \A c \in Collabs : collab'[c] \in {collab[c], "initialized"}]_vars

\* C9 witness: the document store's initialize() rejected; source control
\* and chat stay initialized, scheduling was never called and the flag is
\* false.
C9_Witness ==
  /\ InitThrew
  /\ Last(initTrace).ev = "reject"
  /\ Last(initTrace).c = "notion"
  /\ collab["github"] = "initialized"
  /\ collab["slack"] = "initialized"
  /\ collab["calendar"] = "constructed"
  /\ ~isInitialized

\* A run of cleanup() has ended.
CleanupEnded == cleanupPc = "idle" /\ cleanupResults # << >>

\* The events of the run of cleanup() at which it reaches a collaborator.
CleanupVisits ==
  {k \in 1..Len(cleanupTrace) : cleanupTrace[k].ev \in {"skip", "issue", "typeerror"}}

\* C10 (as claimed): when a run of cleanup() has ended, it has reached every
\* collaborator: each was skipped as missing or had its cleanup() called,
\* whatever the cleanup() of the ones before it did.
C10_EveryCollaboratorReached ==
  CleanupEnded =>
    \A c \in Collabs :
      \E k \in 1..Len(cleanupTrace) :
        cleanupTrace[k].c = c /\ cleanupTrace[k].ev \in {"skip", "issue"}

\* C10, what the code does: cleanup() reaches the collaborators in the order github,
\* slack, notion, calendar; a missing one is skipped without error and the
\* run goes on to the next; a resolved cleanup() lets the run go on; a
\* rejected cleanup() ends the run with that error thrown to the caller, and
\* the collaborators after it are not reached.
C10_CleanupStopsAtRejection ==
  /\ \A k \in CleanupVisits :
       /\ cleanupTrace[k].c =
            <<"github", "slack", "notion", "calendar">>
              [Cardinality({j \in CleanupVisits : j <= k})]
       /\ cleanupTrace[k].ev # "typeerror"
       /\ cleanupTrace[k].ev = "skip" => ~present[cleanupTrace[k].c]
       /\ cleanupTrace[k].ev = "issue" =>
            (k < Len(cleanupTrace) =>
               /\ cleanupTrace[k + 1].ev \in {"resolve", "reject"}
               /\ cleanupTrace[k + 1].c = cleanupTrace[k].c)
  /\ \A k \in 1..Len(cleanupTrace) :
       cleanupTrace[k].ev = "reject" => (k = Len(cleanupTrace) /\ cleanupPc = "idle")
  /\ CleanupEnded =>
       IF Last(cleanupResults).kind = "return"
       THEN /\ Cardinality(CleanupVisits) = 4
            /\ \A k \in 1..Len(cleanupTrace) : cleanupTrace[k].ev # "reject"
       ELSE /\ cleanupTrace # << >>
            /\ Last(cleanupTrace).ev = "reject"
            /\ Last(cleanupResults).error = Last(cleanupTrace).error

\* C10 witness: chat's cleanup() rejected after source control was torn
\* down; the document store and scheduling are in place and were not reached.
C10_Witness ==
  /\ CleanupEnded
  /\ Last(cleanupResults).kind = "throw"
  /\ Last(cleanupTrace).ev = "reject"
  /\ Last(cleanupTrace).c = "slack"
  /\ collab["github"] = "cleaned"
  /\ present["notion"] /\ present["calendar"]
  /\ \A k \in 1..Len(cleanupTrace) : cleanupTrace[k].c \notin {"notion", "calendar"}

\* C11: an invocation has handed its caller at most one outcome, exactly one
\* once it is done and none before; and, every collaborator call settling in
\* the end, a started invocation ends by returning one envelope.
C11_ReturnsExactlyOnce ==
  /\ [](\A i \in Invs :
          /\ Len(outcome[i]) <= 1
          /\ inv[i].pc = "done" <=> ReturnedEnvelope(i)
          /\ inv[i].pc = "running" =>
               \E n \in 1..Len(calls[i]) :
                 calls[i][n].status = "pending" /\ calls[i][n].stage = inv[i].stage)
  /\ \A i \in Invs :
       (inv[i].pc = "running") ~> (inv[i].pc = "done" /\ ReturnedEnvelope(i))

\* C11 witness: a code-review invocation has returned its one envelope with
\* both fetches settled, one of them after the return.
C11_Witness ==
  \E i \in Invs :
    /\ inv[i].wf = "scheduleCodeReview"
    /\ inv[i].pc = "done"
    /\ Len(outcome[i]) = 1
    /\ Len(calls[i]) = 2
    /\ calls[i][1].status = "rejected"
    /\ calls[i][2].status = "rejected"

\* C14: the step that enters a workflow records the clock reading of that
\* moment and no later step changes it; the step that returns an envelope,
\* successful or failed, gives it an executionTime that is the clock reading
\* of the return minus the reading at entry, and is not negative.
C14_ElapsedIsReturnMinusEntry ==
  [][\A i \in Invs :
       /\ (inv[i].pc = "idle" /\ inv'[i].pc # "idle") => inv'[i].startTime = now
       /\ inv[i].pc # "idle" => inv'[i].startTime = inv[i].startTime
       /\ Len(outcome'[i]) > Len(outcome[i]) =>
            /\ Last(outcome'[i]).kind = "return"
            /\ Last(outcome'[i]).envelope.executionTime = now' - inv'[i].startTime
            /\ Last(outcome'[i]).envelope.executionTime >= 0]_vars

\* C14 witness: a failure envelope and a success envelope are both reachable
\* with time having passed; this one is the failure after the clock moved.
C14_Witness ==
  \E i \in Invs :
    /\ Failed(i)
    /\ HasRejected(calls[i])
    /\ outcome[i][1].envelope.executionTime = MaxClock
    /\ now = MaxClock

\* C15: a code-review invocation issues, after its two fetches, find slot,
\* create channel, create meeting, create document and post notification in
\* that order, each only when every earlier call has resolved; it posts at
\* most one notification, exactly one when it succeeds, and only with the
\* channel, the meeting and the document created.
C15_CodeReviewOrder ==
  \A i \in Invs :
    inv[i].pc # "idle" /\ inv[i].wf = "scheduleCodeReview" =>
      /\ IsPrefix(OpsOf(i), <<"getPullRequest", "getIssue", "findOptimalTime",
                              "createReviewChannel", "createMeeting",
                              "createDocument", "sendMessage">>)
      /\ \A n \in 3..Len(calls[i]) : AllResolvedBefore(i, n)
      /\ Cardinality(Issued(i, "sendMessage")) <= 1
      /\ Succeeded(i) => Cardinality(Issued(i, "sendMessage")) = 1
      /\ Issued(i, "sendMessage") # {} =>
           {<<"channel", i>>, <<"meeting", i>>, <<"notionPage", i>>} \subseteq artifacts

\* C15 witness: the notification of a code review is in flight.
C15_Witness ==
  \E i \in Invs :
    /\ inv[i].wf = "scheduleCodeReview"
    /\ inv[i].pc = "running"
    /\ Len(calls[i]) = 7
    /\ calls[i][7].op = "sendMessage"
    /\ calls[i][7].status = "pending"

\* C16: a kickoff invocation issues create project page, create repository,
\* create channel, find slot, create meeting and post notification in that
\* order, each only when every earlier call has resolved, so that at most one
\* call is outstanding.
C16_KickoffOrder ==
  \A i \in Invs :
    inv[i].pc # "idle" /\ inv[i].wf = "createProjectKickoff" =>
      /\ IsPrefix(OpsOf(i), <<"createProjectPage", "createRepository",
                              "createReviewChannel", "findOptimalTime",
                              "createMeeting", "sendMessage">>)
      /\ \A n \in 1..Len(calls[i]) : AllResolvedBefore(i, n)
      /\ Cardinality(Pending(i)) <= 1

\* C16 witness: a kickoff has issued all six calls and returned success.
C16_Witness ==
  \E i \in Invs :
    /\ inv[i].wf = "createProjectKickoff"
    /\ Succeeded(i)
    /\ Len(calls[i]) = 6

\* C17: an incident invocation issues create document, create issue, create
\* the private channel and post the alert in that order, and then, only when
\* escalating, create meeting and post the join-now message; each call is
\* issued only when every earlier one has resolved, so the escalation meeting
\* is never requested before the alert was delivered.
C17_IncidentOrder ==
  \A i \in Invs :
    inv[i].pc # "idle" /\ inv[i].wf = "handleIncidentResponse" =>
      /\ IsPrefix(OpsOf(i), <<"createDocument", "createIssue", "createReviewChannel",
                              "sendMessage", "createMeeting", "sendMessage">>)
      /\ \A n \in 1..Len(calls[i]) : AllResolvedBefore(i, n)
      /\ \A n \in Issued(i, "createReviewChannel") : calls[i][n].visibility = "private"
      /\ Len(calls[i]) > 4 => inv[i].severity \in {"high", "critical"}
      /\ \A n \in Issued(i, "createMeeting") :
           /\ n = 5
           /\ calls[i][4].op = "sendMessage"
           /\ calls[i][4].status = "resolved"
      /\ Succeeded(i) =>
           Len(calls[i]) = IF inv[i].severity \in {"high", "critical"} THEN 6 ELSE 4

\* C17 witness: an escalating incident has its meeting request in flight.
C17_Witness ==
  \E i \in Invs :
    /\ inv[i].wf = "handleIncidentResponse"
    /\ inv[i].pc = "running"
    /\ Len(calls[i]) = 5
    /\ calls[i][5].op = "createMeeting"
    /\ calls[i][5].status = "pending"

\* C18: a code-review invocation one of whose fetches was rejected has
\* returned its failure envelope with no call issued beyond the two fetches,
\* whether or not the other fetch has settled; and a fetch that settles after
\* the return changes only its own status: no call is issued, no outcome is
\* added and nothing is thrown.
C18_FailFastFetch ==
  /\ [](\A i \in Invs :
          (/\ inv[i].pc # "idle"
           /\ inv[i].wf = "scheduleCodeReview"
           /\ \E n \in 1..Len(calls[i]) :
                calls[i][n].stage = 1 /\ calls[i][n].status = "rejected")
          => /\ Failed(i)
             /\ inv[i].pc = "done"
             /\ Len(calls[i]) = 2)
  /\ [][\A i \in Invs :
          inv[i].pc = "done" /\ inv[i].wf = "scheduleCodeReview" =>
            /\ inv'[i] = inv[i]
            /\ outcome'[i] = outcome[i]
            /\ Len(calls'[i]) = Len(calls[i])
            /\ artifacts' = artifacts
            /\ ctx' = ctx]_vars

\* C18 witness: one fetch was rejected, the invocation returned its failure
\* envelope, and the other fetch has resolved since.
C18_Witness ==
  \E i \in Invs :
    /\ inv[i].wf = "scheduleCodeReview"
    /\ Failed(i)
    /\ Len(calls[i]) = 2
    /\ calls[i][1].status = "rejected"
    /\ calls[i][2].status = "resolved"

\* C12: the attendees of a code review are the reviewers' emails, then the
\* author's email, then the extra attendees when given, each group in its
\* given order, with exactly the falsy entries left out: the k-th attendee is
\* the k-th truthy entry of that concatenation.
C12_AttendeesInOrder ==
  (derived.of = "attendees" /\ derived.done) =>
    LET all == derived.reviewers \o <<derived.author>>
                 \o (IF derived.extras.given THEN derived.extras.list ELSE << >>)
        kept == {p \in 1..Len(all) : all[p] \notin {Undefined, Null, ""}}
        Rank(p) == Cardinality({q \in kept : q <= p})
    IN /\ Len(derived.attendees) = Cardinality(kept)
       /\ \A p \in kept : derived.attendees[Rank(p)] = all[p]

\* C12 witness: an undefined reviewer email was dropped from between two
\* kept ones, with an author and an extra attendee following.
C12_Witness ==
  /\ derived.of = "attendees"
  /\ derived.done
  /\ derived.reviewers = <<Undefined, "a@x.com">>
  /\ derived.author = "b@x.com"
  /\ derived.extras = [given |-> TRUE, list |-> <<"", "a@x.com">>]
  /\ derived.attendees = <<"a@x.com", "b@x.com", "a@x.com">>

\* C13: the channel name of a code review is not empty, is at most 80 code
\* units long and holds only characters of [a-z0-9-], for every title and
\* every PR number that is a non-negative integer.
C13_ChannelNameIsSlug ==
  (derived.of = "channelData.name" /\ derived.done) =>
    /\ Len(derived.name) >= 1
    /\ Len(derived.name) <= 80
    /\ \A k \in 1..Len(derived.name) :
         \/ \E j \in 1..26 : derived.name[k] = LowerCase[j]
         \/ \E j \in 1..10 : derived.name[k] = Digits[j]
         \/ derived.name[k] = "-"

\* C13 witness: a title longer than the limit, ending in characters that are
\* replaced, was cut to exactly 80.
C13_Witness ==
  /\ derived.of = "channelData.name"
  /\ derived.done
  /\ Len(derived.title) > SlugMax
  /\ Last(derived.title) = "U+0130"
  /\ Len(derived.name) = SlugMax

\* C20: the repository name of a kickoff is the project name lowercased, with
\* every character outside [a-z0-9-] replaced by '-', and cut to 80
\* characters; the channel name is proj- followed by the repository name.
C20_RepoNameTruncated ==
  (derived.of = "repoName" /\ derived.done) =>
    /\ derived.repoName =
         Substring(Replace(ToLowerCase(derived.project_name)), SlugMax)
    /\ derived.name = <<"p", "r", "o", "j", "-">> \o derived.repoName

\* C20, what the code does: the same rule without the cut, so that a
\* repository name is as long as the lowercased project name.
C20_RepoNameUncut ==
  (derived.of = "repoName" /\ derived.done) =>
    /\ derived.repoName = Replace(ToLowerCase(derived.project_name))
    /\ \A k \in 1..Len(derived.repoName) : derived.repoName[k] \in SlugChars
    /\ derived.name = <<"p", "r", "o", "j", "-">> \o derived.repoName

\* The operations of a procedure in the order of its source text.
RECURSIVE Flatten(_)
Flatten(plan) ==
  IF plan = << >> THEN << >>
  ELSE [n \in 1..Len(Head(plan)) |-> Head(plan)[n].op] \o Flatten(Tail(plan))

\* C19: whatever isInitialized holds and whatever initialize() and cleanup()
\* have done or are doing, an invocation issues the calls of its procedure:
\* while it runs it waits for a call it issued, it fails only when a call of
\* its own was rejected, and with no call rejected it ends in success having
\* issued every call of the procedure in order.
C19_FlagNeverConsulted ==
  \A i \in Invs :
    inv[i].pc # "idle" =>
      LET ops == Flatten(Plan(inv[i].wf, inv[i].severity)) IN
      /\ IsPrefix(OpsOf(i), ops)
      /\ inv[i].pc = "running" => Pending(i) # {}
      /\ Failed(i) => HasRejected(calls[i])
      /\ (inv[i].pc = "done" /\ ~HasRejected(calls[i])) =>
           Succeeded(i) /\ OpsOf(i) = ops

\* C19 witness: initialize() has failed, cleanup() has run, the flag is
\* false, and a workflow has issued all its calls and returned success.
C19_Witness ==
  \E i \in Invs :
    /\ ~isInitialized
    /\ Len(initResults) = 1
    /\ initResults[1].kind = "throw"
    /\ Len(cleanupResults) = 1
    /\ Succeeded(i)
    /\ Len(calls[i]) >= 4

\* The values that are user credentials.
Credentials ==
  {<<t, i>> : t \in {"githubToken", "slackToken", "notionToken", "calendarToken"},
              i \in Invs}

\* C21: a step of a workflow procedure, from its entry to its return and
\* whether it ends in success or failure, leaves the collaborator fields,
\* this.config and isInitialized as they were and assigns no further field;
\* and at no time is a user credential held in a field of the orchestrator.
C21_WorkflowsLeaveOrchestrator ==
  /\ [][wfVars' # wfVars =>
          /\ present' = present
          /\ collab' = collab
          /\ config' = config
          /\ isInitialized' = isInitialized
          /\ retained' = retained]_vars
  /\ [](/\ retained \cap Credentials = {}
        /\ \A k \in DOMAIN config : config[k] \notin Credentials)

\* C21 witness: on an initialized orchestrator built with an override, one
\* invocation has passed its tokens to collaborators and returned.
C21_Witness ==
  \E i \in Invs :
    /\ isInitialized
    /\ config = MergedConfig([k \in {"reviewDuration"} |-> <<"override", 0>>])
    /\ Failed(i)
    /\ \E n \in 1..Len(calls[i]) : calls[i][n].token \in Credentials

\* The creating calls of the whole procedure of invocation i.
RECURSIVE Creating(_)
Creating(plan) ==
  IF plan = << >> THEN {}
  ELSE {Head(plan)[n].bind : n \in {n \in 1..Len(Head(plan)) : Head(plan)[n].creates}}
         \cup Creating(Tail(plan))

\* C22: an invocation that returned success = true has issued every call of
\* its procedure, the last notification included, and every one of them has
\* resolved; and an invocation whose last notification was rejected after
\* every artifact of the procedure was created has returned a failure
\* envelope without details, the artifacts still existing.
C22_SuccessNeedsEveryCall ==
  \A i \in Invs :
    inv[i].pc # "idle" =>
      LET plan == Plan(inv[i].wf, inv[i].severity)
          ops == Flatten(plan)
      IN /\ Succeeded(i) =>
              /\ OpsOf(i) = ops
              /\ \A n \in 1..Len(calls[i]) : calls[i][n].status = "resolved"
              /\ Last(calls[i]).op = "sendMessage"
         /\ (/\ Len(calls[i]) = Len(ops)
             /\ Last(calls[i]).status = "rejected")
            => /\ Failed(i)
               /\ "details" \notin DOMAIN outcome[i][1].envelope
               /\ {<<b, i>> : b \in Creating(plan)} \subseteq artifacts

\* C22 witness: a code review created its channel, meeting and document, its
\* notification was rejected, and it returned a failure envelope.
C22_Witness ==
  \E i \in Invs :
    /\ inv[i].wf = "scheduleCodeReview"
    /\ Len(calls[i]) = 7
    /\ calls[i][7].op = "sendMessage"
    /\ calls[i][7].status = "rejected"
    /\ {<<"channel", i>>, <<"meeting", i>>, <<"notionPage", i>>} \subseteq artifacts
    /\ Failed(i)

\* A step of cleanup(): its entry, or the settling of a call it awaits.
CleanupStep == cleanupTrace' # cleanupTrace \/ cleanupResults' # cleanupResults

\* C23: isInitialized is false at construction; the only step that makes it
\* true is the one in which the fourth collaborator initialize() of a run
\* resolves, the three before it having resolved in that run; once true it
\* stays true; and no step of cleanup() changes it, so that it can be true
\* with every collaborator torn down.
C23_FlagSetOnceNeverReset ==
  /\ [](initResults = << >> => ~isInitialized)
  /\ [][/\ isInitialized => isInitialized'
        /\ (~isInitialized /\ isInitialized') =>
             /\ Len(initTrace') = 8
             /\ \A c \in Collabs :
                  \E k \in 1..8 : initTrace'[k] = Event("resolve", c, << >>)
             /\ initTrace' = Append(initTrace, Event("resolve", "calendar", << >>))
             /\ initPc' = "idle"
        /\ (initPc' # "idle" \/ (initPc # "idle" /\ Len(initTrace') < 8)) =>
             isInitialized' = isInitialized
        /\ CleanupStep => isInitialized' = isInitialized]_vars

\* C23 witness: initialize() returned, cleanup() returned after it, every
\* collaborator is torn down and the flag is still true.
C23_Witness ==
  /\ isInitialized
  /\ Len(cleanupResults) = 1
  /\ cleanupResults[1].kind = "return"
  /\ Len(cleanupTrace) = 8
  /\ \A c \in Collabs : collab[c] = "cleaned"

====
